---- MODULE Spec2Model ----
(***************************************************************************)
(* Rendezvous (HRW) hashing over a node set with a pluggable hasher:       *)
(* a model of src/src/lib.rs (struct Rendezvous<N, S>).                    *)
(*                                                                         *)
(* nodes  the Vec<N> of the selector, in storage order                     *)
(* build  the hash builder S: it fixes the u64 score of every (key, node)  *)
(*        pair for the lifetime of the selector                            *)
(* snap   the nodes of a clone of the selector (#[derive(Clone)]); the     *)
(*        clone shares the hash builder                                    *)
(* old    the value of nodes before the last call                          *)
(* ret    the last call: its name, arguments and return value              *)
(***************************************************************************)
EXTENDS Integers, Sequences, FiniteSets, TLC

VARIABLES nodes, build, snap, old, ret

vars == <<nodes, build, snap, old, ret>>

\* ---- bounds ------------------------------------------------------------
\* MaxLen bounds the length of the collection
MaxLen == 3

\* the nodes and the key of the tests (basic_pick_default_hasher)
Nodes == {"A", "B", "C"}
Keys == {"key"}

\* The u64 scores are only compared with one another, never computed with:
\* as many levels as there are nodes realise every ordering, ties included,
\* that the scores of the nodes can have for a key.
Scores == 0..(Cardinality(Nodes) - 1)
MaxK == MaxLen + 1
NoNode == "-"
NoKey == "-"

Min(a, b) == IF a < b THEN a ELSE b

Range(s) == {s[i] : i \in 1..Len(s)}

SeqsUpTo(n) == UNION {[1..m -> Nodes] : m \in 0..n}

\* ---- membership --------------------------------------------------------
\* self.nodes.iter().any(|n| n == &node)
IterAny(s, node) == \E i \in 1..Len(s) : s[i] = node

\* self.nodes.iter().position(|n| n == node): the first index, 0 for None
Position(s, node) ==
    IF IterAny(s, node)
    THEN CHOOSE i \in 1..Len(s) : s[i] = node /\ \A j \in 1..(i - 1) : s[j] # node
    ELSE 0

\* Vec::swap_remove(i): the last element takes the place of element i
SwapRemove(s, i) ==
    IF i = Len(s)
    THEN SubSeq(s, 1, Len(s) - 1)
    ELSE [SubSeq(s, 1, Len(s) - 1) EXCEPT ![i] = s[Len(s)]]

\* ---- scoring and selection ---------------------------------------------
hrw_score(key, node, b) == b[key][node]

\* Iterator::max_by_key: a left-to-right fold that keeps the accumulator only
\* when it compares Greater, so the last maximal element wins
RECURSIVE MaxByKeyFrom(_, _, _, _, _)
MaxByKeyFrom(s, key, b, i, acc) ==
    IF i > Len(s)
    THEN acc
    ELSE MaxByKeyFrom(s, key, b, i + 1,
                      IF hrw_score(key, s[acc], b) > hrw_score(key, s[i], b)
                      THEN acc ELSE i)

\* pick_top on the collection s: <<>> for None, <<n>> for Some(n)
PickTopFirstMax(s, key, b) ==
    IF Len(s) = 0
    THEN <<>>
    ELSE <<s[CHOOSE i \in 1..Len(s) :
                /\ \A j \in 1..Len(s) : hrw_score(key, s[j], b) <= hrw_score(key, s[i], b)
                /\ \A j \in 1..(i - 1) : hrw_score(key, s[j], b) < hrw_score(key, s[i], b)]>>

\* naive hashing: the key's hash modulo the number of nodes
RECURSIVE KeyHash(_, _, _)
KeyHash(key, b, S) ==
    IF S = {} THEN 0
    ELSE LET n == CHOOSE x \in S : TRUE IN b[key][n] + KeyHash(key, b, S \ {n})

PickTopModulo(s, key, b) ==
    IF Len(s) = 0 THEN <<>> ELSE <<s[(KeyHash(key, b, Nodes) % Len(s)) + 1]>>

PickTopOf(s, key, b) ==
    IF Len(s) = 0 THEN <<>> ELSE <<s[MaxByKeyFrom(s, key, b, 2, 1)]>>

\* the comparator |a, b| b.0.cmp(&a.0) of pick_top_k, on (score, node) pairs:
\* a is ordered before b when a's score is higher
CmpAscending(a, b) == IF a[1] < b[1] THEN -1 ELSE IF a[1] = b[1] THEN 0 ELSE 1

Cmp(a, b) == IF b[1] < a[1] THEN -1 ELSE IF b[1] = a[1] THEN 0 ELSE 1

\* nodes.iter().map(|n| (hrw_score(key, n, build), n)).collect()
Scored(s, key, b) == [i \in 1..Len(s) |-> <<hrw_score(key, s[i], b), s[i]>>]

PermutationsOfLen == [n \in 0..MaxLen |-> Permutations(1..n)]

Rearrangements(v) == {[i \in 1..Len(v) |-> v[p[i]]] : p \in PermutationsOfLen[Len(v)]}

\* slice::select_nth_unstable_by(nth, cmp), nth counted from 0: any
\* rearrangement with no element before position nth ordered after it and
\* no element after position nth ordered before it
SelectNthUnstableBy(v, nth) ==
    {w \in Rearrangements(v) :
        /\ \A i \in 1..nth : Cmp(w[i], w[nth + 1]) <= 0
        /\ \A j \in (nth + 2)..Len(w) : Cmp(w[j], w[nth + 1]) >= 0}

\* slice::sort_unstable_by(cmp): any rearrangement that is sorted by cmp
SortUnstableBy(v) ==
    {w \in Rearrangements(v) :
        \A i \in 1..Len(w) : \A j \in (i + 1)..Len(w) : Cmp(w[i], w[j]) <= 0}

\* select_nth_unstable_by panics when the index is out of bounds
PickTopKPanics(s, key, k) ==
    /\ ~(Len(s) = 0 \/ k = 0)
    /\ Min(Min(k, Len(s)), Len(s)) - 1 >= Len(s)

\* the sequences pick_top_k(key, k) can return on the collection s
PickTopKOf(s, key, k, b) ==
    IF Len(s) = 0 \/ k = 0
    THEN {<<>>}
    ELSE LET k1 == Min(k, Len(s))
             scored == Scored(s, key, b)
             k2 == Min(k1, Len(scored))
             nth == k2 - 1
         IN UNION {
              {[i \in 1..k2 |-> w2[i][2]] : w2 \in SortUnstableBy(SubSeq(w, 1, k2))}
              : w \in SelectNthUnstableBy(scored, nth)}

\* ---- the state machine -------------------------------------------------
Call(op, node, key, k, ok, val) ==
    [op |-> op, node |-> node, key |-> key, k |-> k, ok |-> ok, panic |-> FALSE,
     val |-> val]

\* new(), from_nodes(nodes), from_nodes_and_hasher(nodes, build):
\* the initial collection is stored as given
Init ==
    /\ nodes \in SeqsUpTo(MaxLen)
    /\ build \in [Keys -> [Nodes -> Scores]]
    /\ snap = <<>>
    /\ old = <<>>
    /\ ret = Call("from_nodes", NoNode, NoKey, 0, TRUE, <<>>)

AddNodeNoCheck(node) ==
    /\ Len(nodes) < MaxLen
    /\ old' = nodes
    /\ nodes' = Append(nodes, node)
    /\ ret' = Call("add_node", node, NoKey, 0, TRUE, <<>>)
    /\ UNCHANGED <<build, snap>>

AddNode(node) ==
    /\ IterAny(nodes, node) \/ Len(nodes) < MaxLen
    /\ old' = nodes
    /\ IF ~IterAny(nodes, node)
       THEN /\ nodes' = Append(nodes, node)
            /\ ret' = Call("add_node", node, NoKey, 0, TRUE, <<>>)
       ELSE /\ nodes' = nodes
            /\ ret' = Call("add_node", node, NoKey, 0, FALSE, <<>>)
    /\ UNCHANGED <<build, snap>>

RemoveNode(node) ==
    /\ old' = nodes
    /\ IF Position(nodes, node) # 0
       THEN /\ nodes' = SwapRemove(nodes, Position(nodes, node))
            /\ ret' = Call("remove_node", node, NoKey, 0, TRUE, <<>>)
       ELSE /\ nodes' = nodes
            /\ ret' = Call("remove_node", node, NoKey, 0, FALSE, <<>>)
    /\ UNCHANGED <<build, snap>>

PickTop(key) ==
    /\ old' = nodes
    /\ ret' = Call("pick_top", NoNode, key, 0, TRUE, PickTopOf(nodes, key, build))
    /\ UNCHANGED <<nodes, build, snap>>

PickTopK(key, k) ==
    /\ old' = nodes
    /\ IF PickTopKPanics(nodes, key, k)
       THEN ret' = [Call("pick_top_k", NoNode, key, k, FALSE, <<>>) EXCEPT !.panic = TRUE]
       ELSE \E out \in PickTopKOf(nodes, key, k, build) :
                ret' = Call("pick_top_k", NoNode, key, k, TRUE, out)
    /\ UNCHANGED <<nodes, build, snap>>

\* Rendezvous::clone(): the clone has the same nodes and the same builder
Clone ==
    /\ snap' = nodes
    /\ old' = nodes
    /\ ret' = Call("clone", NoNode, NoKey, 0, TRUE, <<>>)
    /\ UNCHANGED <<nodes, build>>

Next ==
    \/ \E node \in Nodes : AddNode(node)
    \/ \E node \in Nodes : RemoveNode(node)
    \/ \E key \in Keys : PickTop(key)
    \/ \E key \in Keys : \E k \in 0..MaxK : PickTopK(key, k)
    \/ Clone

Spec == Init /\ [][Next]_vars

\* Init ranges over every collection of at most MaxLen nodes and every
\* builder, and the selection calls take &self, so every (nodes, build) a
\* mixed run reaches is an initial state: the membership calls, the
\* selection calls and the calls on a cloned selector each have a
\* specification of their own.
NextMember ==
    \/ \E node \in Nodes : AddNode(node)
    \/ \E node \in Nodes : RemoveNode(node)

SpecMember == Init /\ [][NextMember]_vars

NextPick ==
    \/ \E key \in Keys : PickTop(key)
    \/ \E key \in Keys : \E k \in 0..MaxK : PickTopK(key, k)

SpecPick == Init /\ [][NextPick]_vars

NextClone ==
    \/ \E node \in Nodes : AddNode(node)
    \/ \E node \in Nodes : RemoveNode(node)
    \/ Clone

SpecClone == Init /\ [][NextClone]_vars

\* ---- properties ---------------------------------------------------------
Score(n, key) == hrw_score(key, n, build)

Count(s, n) == Cardinality({i \in 1..Len(s) : s[i] = n})

NoDuplicates(s) == \A i \in 1..Len(s) : \A j \in 1..Len(s) : s[i] = s[j] => i = j

\* C1: pick_top_k(key, 1) returns [pick_top(key)] when the node set is
\* non-empty, and is empty like pick_top(key) when it is empty
C1_TopOneIsPickTop ==
    (ret.op = "pick_top_k" /\ ret.k = 1)
        => (~ret.panic /\ ret.val = PickTopOf(nodes, ret.key, build))

\* C2: after remove_node(x) has removed x, every key whose pick_top was a
\* node other than x is still picked to that node
C2_ShrinkKeepsOtherPicks ==
    (ret.op = "remove_node" /\ ret.ok)
        => \A key \in Keys :
              PickTopOf(old, key, build) # <<ret.node>>
                  => PickTopOf(nodes, key, build) = PickTopOf(old, key, build)

\* C3 as stated: pick_top_k(key, k) returns exactly min(k, len) pairwise
\* distinct nodes of the node set, holding the highest scores, in strictly
\* descending score order, without panicking
C3_TopKStrictlyDescendingDistinct ==
    ret.op = "pick_top_k"
        => /\ ~ret.panic
           /\ Len(ret.val) = Min(ret.k, Len(nodes))
           /\ NoDuplicates(ret.val)
           /\ Range(ret.val) \subseteq Range(nodes)
           /\ \A n \in Range(nodes) \ Range(ret.val) : \A m \in Range(ret.val) :
                  Score(n, ret.key) <= Score(m, ret.key)
           /\ \A i \in 1..Len(ret.val) : \A j \in (i + 1)..Len(ret.val) :
                  Score(ret.val[i], ret.key) > Score(ret.val[j], ret.key)

\* C3 as amended: pick_top_k(key, k) returns exactly min(k, len) entries of
\* the node collection, no node more often than the collection stores it, no
\* entry left out scoring higher than a returned one, in non-increasing
\* score order, without panicking; it is empty when k = 0 or the collection
\* is empty and takes every entry when k >= len
C3_TopKDescendingEntries ==
    ret.op = "pick_top_k"
        => /\ ~ret.panic
           /\ Len(ret.val) = Min(ret.k, Len(nodes))
           /\ \A n \in Nodes : Count(ret.val, n) <= Count(nodes, n)
           /\ \A n \in Nodes : \A m \in Range(ret.val) :
                  Count(ret.val, n) < Count(nodes, n)
                      => Score(n, ret.key) <= Score(m, ret.key)
           /\ \A i \in 1..Len(ret.val) : \A j \in (i + 1)..Len(ret.val) :
                  Score(ret.val[i], ret.key) >= Score(ret.val[j], ret.key)
           /\ (ret.k = 0 \/ Len(nodes) = 0) => ret.val = <<>>
           /\ ret.k >= Len(nodes) => \A n \in Nodes : Count(ret.val, n) = Count(nodes, n)

C3_Witness ==
    /\ ret.op = "pick_top_k"
    /\ ret.k = 2
    /\ Len(nodes) = 3
    /\ NoDuplicates(nodes)
    /\ Len(ret.val) = 2
    /\ ret.val[1] # ret.val[2]
    /\ Score(ret.val[1], ret.key) = Score(ret.val[2], ret.key)
    /\ \E n \in Range(nodes) : Score(n, ret.key) < Score(ret.val[2], ret.key)

\* C4: no two entries of the node collection are equal
C4_NoDuplicateNodes == NoDuplicates(nodes)

\* C5: remove_node(x) returns true iff x was present; after a true removal x
\* is absent, len is one less and every other node is still present; after
\* a false return the collection is unchanged
C5_RemoveNodeContract ==
    ret.op = "remove_node"
        => /\ ret.ok <=> IterAny(old, ret.node)
           /\ ret.ok => /\ ~IterAny(nodes, ret.node)
                        /\ Len(nodes) = Len(old) - 1
                        /\ Range(old) \ {ret.node} \subseteq Range(nodes)
           /\ ~ret.ok => nodes = old

\* C6: add_node(x) returns true iff no element equal to x was present; on
\* true x is present, len is one more and every earlier node is still
\* present; on false the collection and len are unchanged
C6_AddNodeContract ==
    ret.op = "add_node"
        => /\ ret.ok <=> ~IterAny(old, ret.node)
           /\ ret.ok => /\ IterAny(nodes, ret.node)
                        /\ Len(nodes) = Len(old) + 1
                        /\ \A n \in Nodes : Count(nodes, n) >= Count(old, n)
                        /\ Range(old) \subseteq Range(nodes)
           /\ ~ret.ok => nodes = old /\ Len(nodes) = Len(old)

C6_Witness ==
    /\ ret.op = "add_node"
    /\ ~ret.ok
    /\ Len(old) = 2
    /\ NoDuplicates(old)
    /\ IterAny(old, ret.node)
    /\ nodes = old

\* C7: two selectors with the same builder whose collections hold the same
\* nodes in different orders agree on pick_top(key) and on pick_top_k(key, k)
SameNodes(s, t) == Len(s) = Len(t) /\ \A n \in Nodes : Count(s, n) = Count(t, n)

C7_OrderIndependent ==
    (SameNodes(snap, nodes) /\ snap # nodes)
        => \A key \in Keys :
              /\ PickTopOf(snap, key, build) = PickTopOf(nodes, key, build)
              /\ \A k \in 0..MaxK :
                    \A r1 \in PickTopKOf(snap, key, k, build) :
                       \A r2 \in PickTopKOf(nodes, key, k, build) : r1 = r2

\* C9: pick_top(key) is None iff the node set is empty; otherwise it is a
\* node of the set with the maximum score, the last such node in storage order
C9_PickTopLastMax ==
    ret.op = "pick_top"
        => /\ ret.val = <<>> <=> Len(nodes) = 0
           /\ Len(nodes) > 0
                 => \E i \in 1..Len(nodes) :
                       /\ ret.val = <<nodes[i]>>
                       /\ \A j \in 1..Len(nodes) :
                             Score(nodes[j], ret.key) <= Score(nodes[i], ret.key)
                       /\ \A j \in (i + 1)..Len(nodes) :
                             Score(nodes[j], ret.key) < Score(nodes[i], ret.key)

C9_Witness ==
    /\ ret.op = "pick_top"
    /\ Len(nodes) = 3
    /\ NoDuplicates(nodes)
    /\ Score(nodes[1], ret.key) = Score(nodes[2], ret.key)
    /\ Score(nodes[3], ret.key) < Score(nodes[2], ret.key)
    /\ ret.val = <<nodes[2]>>

\* C10: after add_node(x) has inserted x, pick_top(key) is the node picked
\* before the call or x, for every key
C10_GrowthMovesOnlyToNew ==
    (ret.op = "add_node" /\ ret.ok)
        => \A key \in Keys :
              \/ PickTopOf(nodes, key, build) = PickTopOf(old, key, build)
              \/ PickTopOf(nodes, key, build) = <<ret.node>>

C10_Witness ==
    /\ ret.op = "add_node"
    /\ ret.ok
    /\ Len(old) = 2
    /\ NoDuplicates(nodes)
    /\ \E key \in Keys :
          /\ Score(old[1], key) = Score(old[2], key)
          /\ Score(ret.node, key) < Score(old[1], key)
          /\ PickTopOf(nodes, key, build) = <<old[2]>>

====
